---- MODULE Spec2Model ----
(***************************************************************************)
(* Model of the generation orchestration layer of MapToPoster's Flask GUI  *)
(* (src/gui.py): load_all_themes, do_generate and the /api/generate        *)
(* handler api_generate.                                                   *)
(*                                                                         *)
(* Encoding of Python values.  JSON strings are TLA+ strings; the JSON    *)
(* booleans are the tokens JTrue and JFalse; a key missing from the        *)
(* request dict is a key outside the DOMAIN of the request function, and   *)
(* dict.get then yields None.  Objects (coordinate pairs, font sets,       *)
(* themes, paths) are tuples and an unset object is the empty tuple.       *)
(***************************************************************************)
EXTENDS Integers, Sequences, FiniteSets, TLC

\* ------------------------------------------------------------------ bounds

\* Number of theme keys that may have a file in THEMES_DIR.
MaxThemes == 2

\* ------------------------------------------------------------- value space

None == "None"
Unset == <<>>
JTrue == "json:true"
JFalse == "json:false"
\* Marks, while a request is being built, a key the request does not carry.
ABSENT == "absent"

\* Theme file stems in the order sorted() gives their paths.
ThemeOrder == <<"terracotta", "tokyo", "warm_beige", "winter">>
ThemeKeys == {ThemeOrder[i] : i \in 1..MaxThemes}
Rank(k) == CHOOSE i \in 1..Len(ThemeOrder) : ThemeOrder[i] = k

\* Request handler threads of the server.
Threads == {"w1", "w2"}
MainThread == "w1"

\* Mutant of GetOr: the default replaces the value the dict holds.
GetOrDefaultOnly(d, k, dflt) == dflt

\* dict.get(key) and dict.get(key, default).
Get(d, k) == IF k \in DOMAIN d THEN d[k] ELSE None
GetOr(d, k, dflt) == IF k \in DOMAIN d THEN d[k] ELSE dflt

\* Python truthiness of a JSON scalar.
Truthy(v) == v \notin {None, "", JFalse}

\* Mutant of Override: the copy keeps only the fields that have a value.
OverrideCleaned(d, k, v) ==
    (k :> v) @@ [x \in {y \in DOMAIN d : Truthy(d[y])} |-> d[x]]

\* Mutant of Override: the request's own field wins over the loop's key.
OverrideKept(d, k, v) == d @@ (k :> v)

\* {**d, k: v}
Override(d, k, v) == (k :> v) @@ d

Fld(k, v) == IF v = ABSENT THEN <<>> ELSE (k :> v)

MkReq(city, country, lat, lon, ff, al, th) ==
    Fld("city", city) @@ Fld("country", country) @@ Fld("latitude", lat)
    @@ Fld("longitude", lon) @@ Fld("font_family", ff)
    @@ Fld("all_themes", al) @@ Fld("theme", th)

\* ----------------------------------------------------------- request inputs

CityInputs == {ABSENT, "", " ", "Paris"}
CountryInputs == {ABSENT, "", " ", "France"}
\* (latitude, longitude) as typed by the user.
CoordInputs ==
    { <<ABSENT, ABSENT>>, <<"48.8566", "2.3522E">>, <<"48.8566", ABSENT>>,
      <<ABSENT, "2.3522E">>, <<"", "2.3522E">>, <<"north", "2.3522E">>,
      <<"48.8566", "east">> }
FontInputs == {ABSENT, "", " ", "Roboto"}
AllThemesInputs == {ABSENT, JFalse, JTrue}
ThemeInputs == {ABSENT} \cup ThemeKeys

\* Requests whose city and country vary, the other keys missing.
BlankRequests ==
    { MkReq(c, k, ABSENT, ABSENT, ABSENT, ABSENT, ABSENT) :
        c \in CityInputs, k \in CountryInputs }
\* Requests for Paris, France with every combination of the other keys.
ParisRequests ==
    { MkReq("Paris", "France", ll[1], ll[2], ff, al, th) :
        ll \in CoordInputs, ff \in FontInputs,
        al \in AllThemesInputs, th \in ThemeInputs }
\* What request.get_json() may yield.  The bodies "null" and "{}" are both
\* falsy and carry no key: both are the empty function, which BlankRequests
\* holds.
Bodies == BlankRequests \cup ParisRequests

\* The optional keys of a request: format, distance, width, height and the
\* three display texts, as the page or another client sends them.
FormatInputs == {ABSENT, "svg"}
DistanceInputs == {ABSENT, "5000", "far"}
\* (width, height)
SizeInputs == { <<ABSENT, ABSENT>>, <<"8", "10">>, <<"8", "tall">> }
\* (display_city, display_country, country_label)
LabelInputs ==
    { <<ABSENT, ABSENT, ABSENT>>, <<"", "", "">>, <<"Lutetia", "Gaul", "FR">> }

WithOptions(d, fmt, dist, size, labels) ==
    d @@ Fld("format", fmt) @@ Fld("distance", dist)
      @@ Fld("width", size[1]) @@ Fld("height", size[2])
      @@ Fld("display_city", labels[1]) @@ Fld("display_country", labels[2])
      @@ Fld("country_label", labels[3])

\* Requests for Paris, France by explicit coordinates, for one theme or for
\* all, with every combination of the optional keys.
OptionBodies ==
    { WithOptions(MkReq("Paris", "France", "48.8566", "2.3522E", ABSENT, al, th),
                  fmt, dist, size, labels) :
        al \in {ABSENT, JTrue}, th \in {ABSENT, "tokyo"},
        fmt \in FormatInputs, dist \in DistanceInputs,
        size \in SizeInputs, labels \in LabelInputs }

\* ------------------------------------------------------------ collaborators
\* Every collaborator call either returns or raises an Exception; which of
\* the two a call does is the environment's choice at each call.

\* lat_lon_parser.parse: decimal degrees, degrees with a hemisphere suffix;
\* anything else raises.  Values are in 1e-4 degrees.
ParseCoord(s) ==
    CASE s = "48.8566" -> [ok |-> TRUE, val |-> 488566]
      [] s = "2.3522E" -> [ok |-> TRUE, val |-> 23522]
      [] OTHER -> [ok |-> FALSE, val |-> 0]

\* What cmp.get_coordinates returns when it finds the place.
GeocodeResult(city, country) ==
    IF city = "Paris" /\ country = "France"
    THEN <<488534, 23488>> ELSE <<0, 0>>

\* The defaults of lines 66, 69 and 70.
DefaultDistance == 18000
DefaultWidth == 12
DefaultHeight == 16

\* int(s) and float(s) on a string of the request: the number it spells, or
\* ValueError.  On a number, the defaults, they return the number.
PyInt(s) ==
    CASE s = "5000" -> [ok |-> TRUE, val |-> 5000]
      [] OTHER -> [ok |-> FALSE, val |-> 0]

PyFloat(s) ==
    CASE s = "8" -> [ok |-> TRUE, val |-> 8]
      [] s = "10" -> [ok |-> TRUE, val |-> 10]
      [] OTHER -> [ok |-> FALSE, val |-> 0]

\* Mutant of IntOr: another default than the one given.
IntOrOtherDefault(d, k, dflt) ==
    IF k \in DOMAIN d THEN PyInt(d[k]) ELSE [ok |-> TRUE, val |-> 29000]

\* int(params.get(k, dflt)), float(params.get(k, dflt)) with a number dflt.
IntOr(d, k, dflt) ==
    IF k \in DOMAIN d THEN PyInt(d[k]) ELSE [ok |-> TRUE, val |-> dflt]

FloatOr(d, k, dflt) ==
    IF k \in DOMAIN d THEN PyFloat(d[k]) ELSE [ok |-> TRUE, val |-> dflt]

\* params.get(k) or None
OrNone(d, k) == IF Truthy(Get(d, k)) THEN d[k] ELSE None

\* What load_fonts returns for a family it can acquire.
FontSet(family) == <<"fonts", family>>

\* What cmp.load_theme returns for a key it can load.
Theme(key) == <<"theme", key>>

\* cmp.generate_output_filename and os.path.basename.
OutputFilename(city, key, fmt) == <<"posters", city, key, fmt>>
Basename(path) == Tail(path)

\* ------------------------------------------------------------------- state

VARIABLES
    theme_store,    \* THEMES_DIR: file stem -> "ok" | "bad" (malformed JSON)
    THEME,          \* the module global cmp.THEME
    pc,             \* per thread: position in api_generate / do_generate
    data,           \* per thread: request.get_json()
    themes_to_run,  \* per thread
    theme_idx,      \* per thread: themes the for loop has taken so far
    results,        \* per thread
    params,         \* per thread: do_generate's argument
    coords,         \* per thread: do_generate local
    custom_fonts,   \* per thread: do_generate local
    output_file,    \* per thread: do_generate local
    response,       \* per thread: what api_generate returned
    geocode_calls,  \* per thread: cmp.get_coordinates calls of this batch
    font_calls,     \* per thread: load_fonts calls of this batch
    render_calls,   \* per thread: cmp.create_poster calls of this batch
    last_render,    \* per thread: arguments of the latest create_poster call
    calls,          \* per thread: the collaborators this batch has called, in order
    listed          \* per thread: the order THEMES_DIR.glob listed the files in
                    \* for the catalog the handler has just loaded

vars == <<theme_store, THEME, pc, data, themes_to_run, theme_idx, results,
          params, coords, custom_fonts, output_file, response,
          geocode_calls, font_calls, render_calls, last_render, calls,
          listed>>

locals == <<coords, custom_fonts, output_file>>
counters == <<geocode_calls, font_calls, render_calls, last_render>>

NoResponse == [status |-> 0, error |-> None, has_results |-> FALSE, results |-> <<>>]
ErrorResponse(msg) ==
    [status |-> 400, error |-> msg, has_results |-> FALSE, results |-> <<>>]
ResultsResponse(rs) ==
    [status |-> 200, error |-> None, has_results |-> TRUE, results |-> rs]
\* An exception that leaves api_generate: Flask answers 500, no JSON body.
CrashResponse ==
    [status |-> 500, error |-> None, has_results |-> FALSE, results |-> <<>>]

NoRender == [theme_key |-> None, theme_in_effect |-> Unset, point |-> Unset,
             fonts |-> Unset, output_file |-> Unset, returned |-> FALSE,
             city |-> None, country |-> None, dist |-> 0,
             output_format |-> None, width |-> 0, height |-> 0,
             country_label |-> None, display_city |-> None,
             display_country |-> None]

Stores == UNION { [S -> {"ok", "bad"}] : S \in SUBSET ThemeKeys }

Init ==
    /\ theme_store \in Stores
    /\ THEME = Unset
    /\ pc = [t \in Threads |-> "idle"]
    /\ data = [t \in Threads |-> Unset]
    /\ themes_to_run = [t \in Threads |-> <<>>]
    /\ theme_idx = [t \in Threads |-> 0]
    /\ results = [t \in Threads |-> <<>>]
    /\ params = [t \in Threads |-> Unset]
    /\ coords = [t \in Threads |-> Unset]
    /\ custom_fonts = [t \in Threads |-> Unset]
    /\ output_file = [t \in Threads |-> Unset]
    /\ response = [t \in Threads |-> NoResponse]
    /\ geocode_calls = [t \in Threads |-> 0]
    /\ font_calls = [t \in Threads |-> 0]
    /\ render_calls = [t \in Threads |-> 0]
    /\ last_render = [t \in Threads |-> NoRender]
    /\ calls = [t \in Threads |-> <<>>]
    /\ listed = [t \in Threads |-> <<>>]

\* ---------------------------------------------------------------- handler

\* A POST /api/generate arrives on an idle thread t: data = request.get_json().
Receive(t, bodies) ==
    /\ pc[t] = "idle"
    /\ \E d \in bodies : data' = [data EXCEPT ![t] = d]
    /\ pc' = [pc EXCEPT ![t] = "validate"]
    /\ UNCHANGED <<listed, theme_store, THEME, themes_to_run, theme_idx, results,
                   params, locals, response, counters, calls>>

\* The response has been sent: the handler's frame and the request are
\* discarded and the thread is free again.  Only module globals live on.
Finish(t) ==
    /\ pc[t] = "done"
    /\ pc' = [pc EXCEPT ![t] = "idle"]
    /\ data' = [data EXCEPT ![t] = Unset]
    /\ themes_to_run' = [themes_to_run EXCEPT ![t] = <<>>]
    /\ theme_idx' = [theme_idx EXCEPT ![t] = 0]
    /\ results' = [results EXCEPT ![t] = <<>>]
    /\ params' = [params EXCEPT ![t] = Unset]
    /\ response' = [response EXCEPT ![t] = NoResponse]
    /\ geocode_calls' = [geocode_calls EXCEPT ![t] = 0]
    /\ font_calls' = [font_calls EXCEPT ![t] = 0]
    /\ render_calls' = [render_calls EXCEPT ![t] = 0]
    /\ last_render' = [last_render EXCEPT ![t] = NoRender]
    /\ calls' = [calls EXCEPT ![t] = <<>>]
    /\ listed' = [listed EXCEPT ![t] = <<>>]
    /\ UNCHANGED <<theme_store, THEME, locals>>

\* not data or not data.get("city") or not data.get("country")
Invalid(d) ==
    \/ DOMAIN d = {}
    \/ ~Truthy(Get(d, "city"))
    \/ ~Truthy(Get(d, "country"))

\* Mutant of Validate: the coordinates are looked up before the request is
\* validated.
ValidateLate(t) ==
    /\ pc[t] = "validate"
    /\ geocode_calls' = [geocode_calls EXCEPT ![t] = @ + 1]
    /\ calls' = [calls EXCEPT ![t] = @ \o <<"get_coordinates">>]
    /\ IF Invalid(data[t])
       THEN /\ response' = [response EXCEPT
                   ![t] = ErrorResponse("City and Country are required.")]
            /\ pc' = [pc EXCEPT ![t] = "done"]
       ELSE /\ pc' = [pc EXCEPT ![t] = "select"]
            /\ UNCHANGED response
    /\ UNCHANGED <<listed, theme_store, THEME, data, themes_to_run, theme_idx, results,
                   params, locals, font_calls, render_calls, last_render>>

Validate(t) ==
    /\ pc[t] = "validate"
    /\ IF Invalid(data[t])
       THEN /\ response' = [response EXCEPT
                   ![t] = ErrorResponse("City and Country are required.")]
            /\ pc' = [pc EXCEPT ![t] = "done"]
       ELSE /\ pc' = [pc EXCEPT ![t] = "select"]
            /\ UNCHANGED response
    /\ UNCHANGED <<listed, theme_store, THEME, data, themes_to_run, theme_idx, results,
                   params, locals, counters, calls>>

\* ------------------------------------------------------- load_all_themes

Range(s) == {s[i] : i \in 1..Len(s)}

\* THEMES_DIR.glob("*.json"): the files, in whatever order the directory
\* lists them.
Glob(store) ==
    { s \in [1..Cardinality(DOMAIN store) -> DOMAIN store] :
        \A i, j \in DOMAIN s : i # j => s[i] # s[j] }

\* Mutant of Sorted: the files are taken in the order they are listed.
SortedNot(files) == files

\* sorted(): insertion of each path at its place in path order.
RECURSIVE InsertSorted(_, _)
InsertSorted(s, k) ==
    IF s = <<>> THEN <<k>>
    ELSE IF Rank(k) < Rank(Head(s)) THEN <<k>> \o s
    ELSE <<Head(s)>> \o InsertSorted(Tail(s), k)

RECURSIVE SortedFrom(_, _)
SortedFrom(listing, acc) ==
    IF listing = <<>> THEN acc
    ELSE SortedFrom(Tail(listing), InsertSorted(acc, Head(listing)))

Sorted(listing) == SortedFrom(listing, <<>>)

\* result[f.stem] = ...: a new key goes last, a known key keeps its place.
DictInsert(keys, k) == IF k \in Range(keys) THEN keys ELSE Append(keys, k)

\* The for loop of load_all_themes over the sorted files: json.load raises
\* on a malformed file and the exception leaves load_all_themes.
RECURSIVE LoadThemes(_, _, _)
LoadThemes(files, store, keys) ==
    IF files = <<>> THEN [raised |-> FALSE, keys |-> keys]
    ELSE IF store[Head(files)] = "bad" THEN [raised |-> TRUE, keys |-> <<>>]
    ELSE LoadThemes(Tail(files), store, DictInsert(keys, Head(files)))

\* load_all_themes() on a directory listing: the keys of the dict it
\* returns, in iteration order, or the fact that it raised.
LoadAllThemes(listing, store) == LoadThemes(Sorted(listing), store, <<>>)

\* ------------------------------------------------- api_generate: the loop

\* Mutant of LoopHead: an all_themes batch takes its next theme from the
\* theme files as they are now, not from the list made at the start.
LoopHeadLive(t, themes, taken, rs) ==
    LET live == IF Truthy(Get(data[t], "all_themes"))
                THEN Sorted(CHOOSE files \in Glob(theme_store) : TRUE)
                ELSE themes IN
    /\ results' = [results EXCEPT ![t] = rs]
    /\ coords' = [coords EXCEPT ![t] = Unset]
    /\ custom_fonts' = [custom_fonts EXCEPT ![t] = Unset]
    /\ output_file' = [output_file EXCEPT ![t] = Unset]
    /\ IF taken < Len(live)
       THEN /\ theme_idx' = [theme_idx EXCEPT ![t] = taken + 1]
            /\ params' = [params EXCEPT
                   ![t] = Override(data[t], "theme", live[taken + 1])]
            /\ pc' = [pc EXCEPT ![t] = "coords"]
            /\ UNCHANGED response
       ELSE /\ theme_idx' = [theme_idx EXCEPT ![t] = taken]
            /\ params' = [params EXCEPT ![t] = Unset]
            /\ pc' = [pc EXCEPT ![t] = "done"]
            /\ response' = [response EXCEPT ![t] = ResultsResponse(rs)]

\* for theme_key in themes_to_run, reached with `taken` themes consumed and
\* the results list rs: either the next theme's attempt starts with
\* params = {**data, "theme": theme_key}, or the loop is over and
\* jsonify({"results": results}) is returned.  do_generate's locals are gone.
LoopHead(t, themes, taken, rs) ==
    /\ results' = [results EXCEPT ![t] = rs]
    /\ coords' = [coords EXCEPT ![t] = Unset]
    /\ custom_fonts' = [custom_fonts EXCEPT ![t] = Unset]
    /\ output_file' = [output_file EXCEPT ![t] = Unset]
    /\ IF taken < Len(themes)
       THEN /\ theme_idx' = [theme_idx EXCEPT ![t] = taken + 1]
            /\ params' = [params EXCEPT
                   ![t] = Override(data[t], "theme", themes[taken + 1])]
            /\ pc' = [pc EXCEPT ![t] = "coords"]
            /\ UNCHANGED response
       ELSE /\ theme_idx' = [theme_idx EXCEPT ![t] = taken]
            /\ params' = [params EXCEPT ![t] = Unset]
            /\ pc' = [pc EXCEPT ![t] = "done"]
            /\ response' = [response EXCEPT ![t] = ResultsResponse(rs)]

\* The loop variable.
theme_key(t) == themes_to_run[t][theme_idx[t]]

\* An exception nothing in api_generate catches.
Crash(t) ==
    /\ pc' = [pc EXCEPT ![t] = "done"]
    /\ response' = [response EXCEPT ![t] = CrashResponse]
    /\ UNCHANGED <<results, theme_idx, params, locals>>

\* Mutants of OnException: the exception leaves the loop; the failed theme
\* is left out of the results; the handler never leaves the except clause.
OnExceptionAbort(t, e) == Crash(t)

OnExceptionSkip(t, e) ==
    LoopHead(t, themes_to_run[t], theme_idx[t], results[t])

OnExceptionHang(t, e) ==
    /\ pc' = [pc EXCEPT ![t] = "hung"]
    /\ UNCHANGED <<results, theme_idx, params, response, locals>>

\* Mutant of OnException: the message is stored under the success key.
OnExceptionFile(t, e) ==
    LoopHead(t, themes_to_run[t], theme_idx[t],
             Append(results[t], [theme |-> theme_key(t), file |-> e]))

\* except Exception as e: results.append({"theme": theme_key, "error": str(e)})
OnException(t, e) ==
    LoopHead(t, themes_to_run[t], theme_idx[t],
             Append(results[t], [theme |-> theme_key(t), error |-> e]))

\* Mutant of OnReturn: the next theme starts before the result is appended.
OnReturnDeferred(t, path) ==
    LoopHead(t, themes_to_run[t], theme_idx[t], results[t])

\* results.append({"theme": theme_key, "file": os.path.basename(output_file)})
OnReturn(t, path) ==
    LoopHead(t, themes_to_run[t], theme_idx[t],
             Append(results[t], [theme |-> theme_key(t), file |-> Basename(path)]))

\* A step of do_generate that returned: on to the next one.
Goto(t, label) ==
    /\ pc' = [pc EXCEPT ![t] = label]
    /\ UNCHANGED <<results, theme_idx, params, response>>

\* Thread t calls the collaborators `names`, in that order.
Called(t, names) == calls' = [calls EXCEPT ![t] = @ \o names]

\* themes_to_run = list(load_all_themes().keys()) if data.get("all_themes")
\*                 else [data.get("theme", "terracotta")];  results = []
SelectThemes(t) ==
    /\ pc[t] = "select"
    /\ IF Truthy(Get(data[t], "all_themes"))
       THEN /\ Called(t, <<"load_all_themes">>)
            /\ \E files \in Glob(theme_store) :
                 LET r == LoadAllThemes(files, theme_store) IN
                 /\ listed' = [listed EXCEPT ![t] = files]
                 /\ IF r.raised
                    THEN Crash(t) /\ UNCHANGED themes_to_run
                    ELSE /\ themes_to_run' = [themes_to_run EXCEPT ![t] = r.keys]
                         /\ LoopHead(t, r.keys, 0, <<>>)
       ELSE LET one == <<GetOr(data[t], "theme", "terracotta")>> IN
            /\ themes_to_run' = [themes_to_run EXCEPT ![t] = one]
            /\ LoopHead(t, one, 0, <<>>)
            /\ UNCHANGED <<calls, listed>>
    /\ UNCHANGED <<theme_store, THEME, data, counters>>

\* ------------------------------------------------------------ do_generate

\* Mutant of UsesExplicitCoords: the keys are tested for presence, not for
\* a value.
UsesExplicitCoordsIfPresent(p) ==
    "latitude" \in DOMAIN p /\ "longitude" \in DOMAIN p

\* if params.get("latitude") and params.get("longitude")
UsesExplicitCoords(p) ==
    Truthy(Get(p, "latitude")) /\ Truthy(Get(p, "longitude"))

\* Mutant of ExplicitCoords: the pair the other way round.
ExplicitCoordsSwapped(p) ==
    <<ParseCoord(p["longitude"]).val, ParseCoord(p["latitude"]).val>>

\* (parse_coord(params["latitude"]), parse_coord(params["longitude"]))
ExplicitCoords(p) ==
    <<ParseCoord(p["latitude"]).val, ParseCoord(p["longitude"]).val>>

ExplicitCoordsParse(p) ==
    ParseCoord(p["latitude"]).ok /\ ParseCoord(p["longitude"]).ok

\* Lines 46-52: coords from the request, or from cmp.get_coordinates, which
\* returns the place or raises.
ResolveCoords(t) ==
    /\ pc[t] = "coords"
    /\ LET p == params[t] IN
       IF UsesExplicitCoords(p)
       THEN /\ UNCHANGED geocode_calls
            /\ Called(t, IF ParseCoord(p["latitude"]).ok
                         THEN <<"parse_coord", "parse_coord">>
                         ELSE <<"parse_coord">>)
            /\ IF ExplicitCoordsParse(p)
               THEN /\ coords' = [coords EXCEPT ![t] = ExplicitCoords(p)]
                    /\ Goto(t, "fonts")
                    /\ UNCHANGED <<custom_fonts, output_file>>
               ELSE OnException(t, "could not parse coordinate")
       ELSE /\ geocode_calls' = [geocode_calls EXCEPT ![t] = @ + 1]
            /\ Called(t, <<"get_coordinates">>)
            /\ \E found \in BOOLEAN :
                 IF found
                 THEN /\ coords' = [coords EXCEPT
                            ![t] = GeocodeResult(p["city"], p["country"])]
                      /\ Goto(t, "fonts")
                      /\ UNCHANGED <<custom_fonts, output_file>>
                 ELSE OnException(t, "could not find coordinates")
    /\ listed' = [listed EXCEPT ![t] = <<>>]
    /\ UNCHANGED <<theme_store, THEME, data, themes_to_run, font_calls,
                   render_calls, last_render>>

\* Mutant of ResolveFonts: the family is never looked at.
ResolveFontsNever(t) ==
    /\ pc[t] = "fonts"
    /\ custom_fonts' = [custom_fonts EXCEPT ![t] = Unset]
    /\ Goto(t, "theme")
    /\ UNCHANGED <<font_calls, calls, coords, output_file>>
    /\ UNCHANGED <<listed, theme_store, THEME, data, themes_to_run, geocode_calls,
                   render_calls, last_render>>

\* Lines 54-56: custom_fonts = None, or load_fonts(family), which returns the
\* font set or raises.
ResolveFonts(t) ==
    /\ pc[t] = "fonts"
    /\ LET p == params[t] IN
       IF Truthy(Get(p, "font_family"))
       THEN /\ font_calls' = [font_calls EXCEPT ![t] = @ + 1]
            /\ Called(t, <<"load_fonts">>)
            /\ \E loaded \in BOOLEAN :
                 IF loaded
                 THEN /\ custom_fonts' = [custom_fonts EXCEPT
                            ![t] = FontSet(p["font_family"])]
                      /\ Goto(t, "theme")
                      /\ UNCHANGED <<coords, output_file>>
                 ELSE OnException(t, "could not load fonts")
       ELSE /\ custom_fonts' = [custom_fonts EXCEPT ![t] = Unset]
            /\ Goto(t, "theme")
            /\ UNCHANGED <<font_calls, calls, coords, output_file>>
    /\ UNCHANGED <<listed, theme_store, THEME, data, themes_to_run, geocode_calls,
                   render_calls, last_render>>

\* Mutant of LoadTheme: the theme is loaded into a local name and cmp.THEME
\* is left as it was.
LoadThemeNotAssigned(t) ==
    /\ pc[t] = "theme"
    /\ Called(t, <<"load_theme">>)
    /\ \E loaded \in BOOLEAN :
         IF loaded
         THEN /\ Goto(t, "name")
              /\ UNCHANGED locals
         ELSE OnException(t, "could not load theme")
    /\ UNCHANGED <<listed, theme_store, THEME, data, themes_to_run, counters>>

\* Mutant of LoadTheme: a failed theme lookup is swallowed and the attempt
\* goes on with the theme that was there.
LoadThemeSwallowed(t) ==
    /\ pc[t] = "theme"
    /\ Called(t, <<"load_theme">>)
    /\ \E loaded \in BOOLEAN :
         /\ THEME' = IF loaded THEN Theme(params[t]["theme"]) ELSE THEME
         /\ Goto(t, "name")
         /\ UNCHANGED locals
    /\ UNCHANGED <<listed, theme_store, data, themes_to_run, counters>>

\* Mutant of LoadTheme: a failed theme lookup is not caught by the loop.
LoadThemeUncaught(t) ==
    /\ pc[t] = "theme"
    /\ Called(t, <<"load_theme">>)
    /\ \E loaded \in BOOLEAN :
         IF loaded
         THEN /\ THEME' = Theme(params[t]["theme"])
              /\ Goto(t, "name")
              /\ UNCHANGED locals
         ELSE /\ Crash(t)
              /\ UNCHANGED THEME
    /\ UNCHANGED <<listed, theme_store, data, themes_to_run, counters>>

\* Line 58: cmp.THEME = cmp.load_theme(params["theme"]); load_theme returns
\* the theme or raises, and then nothing is assigned.
LoadTheme(t) ==
    /\ pc[t] = "theme"
    /\ Called(t, <<"load_theme">>)
    /\ \E loaded \in BOOLEAN :
         IF loaded
         THEN /\ THEME' = Theme(params[t]["theme"])
              /\ Goto(t, "name")
              /\ UNCHANGED locals
         ELSE /\ OnException(t, "could not load theme")
              /\ UNCHANGED THEME
    /\ UNCHANGED <<listed, theme_store, data, themes_to_run, counters>>

\* Mutant of NameOutput: the name is given a sequence suffix, the position
\* of the theme in its batch.
NameOutputNumbered(t) ==
    /\ pc[t] = "name"
    /\ Called(t, <<"generate_output_filename">>)
    /\ LET p == params[t]
           fmt == GetOr(p, "format", "png") IN
       \E named \in BOOLEAN :
         IF named
         THEN /\ output_file' = [output_file EXCEPT
                    ![t] = Append(OutputFilename(p["city"], p["theme"], fmt),
                                  theme_idx[t])]
              /\ Goto(t, "render")
              /\ UNCHANGED <<coords, custom_fonts>>
         ELSE OnException(t, "could not name output")
    /\ UNCHANGED <<listed, theme_store, THEME, data, themes_to_run, counters>>

\* Lines 60-61: fmt and output_file; generate_output_filename returns the
\* path or raises.
NameOutput(t) ==
    /\ pc[t] = "name"
    /\ Called(t, <<"generate_output_filename">>)
    /\ LET p == params[t]
           fmt == GetOr(p, "format", "png") IN
       \E named \in BOOLEAN :
         IF named
         THEN /\ output_file' = [output_file EXCEPT
                    ![t] = OutputFilename(p["city"], p["theme"], fmt)]
              /\ Goto(t, "render")
              /\ UNCHANGED <<coords, custom_fonts>>
         ELSE OnException(t, "could not name output")
    /\ UNCHANGED <<listed, theme_store, THEME, data, themes_to_run, counters>>

\* Lines 62-76 and 107: cmp.create_poster(...) runs with the module global
\* THEME as it is at the call; it returns, and do_generate returns
\* output_file, or it raises.
CreatePoster(t) ==
    /\ pc[t] = "render"
    /\ LET p == params[t]
           dist == IntOr(p, "distance", DefaultDistance)
           width == FloatOr(p, "width", DefaultWidth)
           height == FloatOr(p, "height", DefaultHeight) IN
       IF ~dist.ok
       THEN /\ OnException(t, "invalid literal for int()")
            /\ UNCHANGED <<calls, render_calls, last_render>>
       ELSE IF ~(width.ok /\ height.ok)
       THEN /\ OnException(t, "could not convert string to float")
            /\ UNCHANGED <<calls, render_calls, last_render>>
       ELSE
         /\ Called(t, <<"create_poster">>)
         /\ render_calls' = [render_calls EXCEPT ![t] = @ + 1]
         /\ \E drawn \in BOOLEAN :
              /\ last_render' = [last_render EXCEPT
                     ![t] = [theme_key |-> p["theme"],
                             theme_in_effect |-> THEME,
                             point |-> coords[t], fonts |-> custom_fonts[t],
                             output_file |-> output_file[t], returned |-> drawn,
                             city |-> p["city"], country |-> p["country"],
                             dist |-> dist.val,
                             output_format |-> GetOr(p, "format", "png"),
                             width |-> width.val, height |-> height.val,
                             country_label |-> OrNone(p, "country_label"),
                             display_city |-> OrNone(p, "display_city"),
                             display_country |-> OrNone(p, "display_country")]]
              /\ IF drawn
                 THEN OnReturn(t, output_file[t])
                 ELSE OnException(t, "could not render")
    /\ UNCHANGED <<listed, theme_store, THEME, data, themes_to_run, geocode_calls,
                   font_calls>>

\* One step of the handler running on thread t.
Handle(t) ==
    \/ Validate(t)
    \/ SelectThemes(t)
    \/ ResolveCoords(t)
    \/ ResolveFonts(t)
    \/ LoadTheme(t)
    \/ NameOutput(t)
    \/ CreatePoster(t)
    \/ Finish(t)

\* ----------------------------------------------------------- specifications
\* Spec serves one request at a time with any body; FairSpec adds that a
\* running handler keeps running; SpecThreaded lets two handlers interleave.
\* THEMES_DIR holds any set of files and stays as it is during a run.

\* One request at a time, any body.
Next == \E t \in {MainThread} : Receive(t, Bodies) \/ Handle(t)

Spec == Init /\ [][Next]_vars

\* The thread that runs a handler keeps running it: every collaborator call
\* returns or raises.  Requests need not arrive.
FairSpec == Spec /\ \A t \in {MainThread} : WF_vars(Handle(t))

\* app.run(host=..., port=..., debug=False) serves each request on a thread
\* of its own: handlers interleave between any two steps.  The bodies are
\* single-theme requests with explicit coordinates.
ThreadedBodies ==
    { MkReq("Paris", "France", "48.8566", "2.3522E", ABSENT, ABSENT, th) :
        th \in ThemeKeys }

NextThreaded == \E t \in Threads : Receive(t, ThreadedBodies) \/ Handle(t)

SpecThreaded == Init /\ [][NextThreaded]_vars

\* One request at a time, each with its own choice of the optional keys.
NextOptions == \E t \in {MainThread} : Receive(t, OptionBodies) \/ Handle(t)

SpecOptions == Init /\ [][NextOptions]_vars

\* A theme file is added to THEMES_DIR or removed from it by someone else
\* while the server runs.
ChangeStore(k) ==
    /\ theme_store' = IF k \in DOMAIN theme_store
                      THEN [x \in DOMAIN theme_store \ {k} |-> theme_store[x]]
                      ELSE (k :> "ok") @@ theme_store
    /\ UNCHANGED <<THEME, pc, data, themes_to_run, theme_idx, results, params,
                   locals, response, counters, calls, listed>>

\* Requests for Paris, France by explicit coordinates, for the default theme
\* or for all themes.
StoreBodies ==
    { MkReq("Paris", "France", "48.8566", "2.3522E", ABSENT, al, ABSENT) :
        al \in {ABSENT, JTrue} }

\* One request at a time while the theme files come and go.
NextStore ==
    \/ \E t \in {MainThread} : Receive(t, StoreBodies) \/ Handle(t)
    \/ \E k \in ThemeKeys : ChangeStore(k)

SpecStore == Init /\ [][NextStore]_vars

\* ------------------------------------------------------------ vocabulary

\* Positions inside one theme's attempt (the try block around do_generate).
AttemptPcs == {"coords", "fonts", "theme", "name", "render"}

IsFailure(entry) == "error" \in DOMAIN entry
IsSuccess(entry) == "file" \in DOMAIN entry

\* The response carries a results list.
Completed(t) == pc[t] = "done" /\ response[t].has_results

\* The themes of DOMAIN store in ascending path order.
Ascending(keys) ==
    CHOOSE s \in [1..Cardinality(keys) -> keys] :
        \A i, j \in 1..Cardinality(keys) : i < j => Rank(s[i]) < Rank(s[j])

\* str.strip() on the strings a request may carry: whitespace is removed.
Strip(v) == IF v = " " THEN "" ELSE v

\* A field that is missing, empty or only whitespace.
Blank(d, k) == Strip(Get(d, k)) \in {None, ""}

\* The request handed to the loop supplies the field as a non-blank string.
Supplies(d, k) == ~Blank(d, k)

\* The handler is past validation and has not yet discarded the request.
Validated(t) == pc[t] \notin {"idle", "validate"}

CoordinateErrors == {"could not parse coordinate", "could not find coordinates"}
FontErrors == {"could not load fonts"}

\* ------------------------------------------------------------------ claims

\* What a step taken inside one theme's attempt may do to thread t.
C1_StepIsolated(t) ==
    pc[t] \in AttemptPcs =>
      /\ themes_to_run'[t] = themes_to_run[t]
      /\ data'[t] = data[t]
      /\ \/ /\ results'[t] = results[t]
            /\ pc'[t] \in AttemptPcs
            /\ theme_idx'[t] = theme_idx[t]
            /\ params'[t] = params[t]
         \/ /\ Len(results'[t]) = Len(results[t]) + 1
            /\ SubSeq(results'[t], 1, Len(results[t])) = results[t]
            /\ results'[t][Len(results'[t])].theme
                 = themes_to_run[t][theme_idx[t]]
            /\ Len(results'[t]) = theme_idx[t]
            /\ <<coords'[t], custom_fonts'[t], output_file'[t]>>
                 = <<Unset, Unset, Unset>>
            /\ IF theme_idx[t] < Len(themes_to_run[t])
               THEN /\ pc'[t] = "coords"
                    /\ theme_idx'[t] = theme_idx[t] + 1
                    /\ params'[t] = Override(data[t], "theme",
                                       themes_to_run[t][theme_idx[t] + 1])
               ELSE /\ pc'[t] = "done"
                    /\ response'[t] = ResultsResponse(results'[t])
                    /\ Len(results'[t]) = Len(themes_to_run[t])

\* C1: per-theme isolation.  A step taken inside one theme's attempt changes
\* the results list by at most appending one entry tagged with that theme;
\* and whenever the attempt ends, by success or by any exception, either
\* the next theme's attempt starts from the request alone (fresh params,
\* no locals left over) or, after the last theme, the results are returned
\* with one entry per theme.  A failure thus touches only its own entry.
C1_PerThemeIsolation == [][\A t \in Threads : C1_StepIsolated(t)]_vars

\* C1 witness: a batch of two themes is complete, the first theme failed
\* and the second one succeeded.
C1_Witness ==
    \E t \in Threads :
      /\ Completed(t)
      /\ Len(results[t]) = 2
      /\ IsFailure(results[t][1])
      /\ IsSuccess(results[t][2])

\* C2: when a valid all_themes request is answered with a results list, the
\* list has one entry per theme file of the catalog, the i-th entry tagged
\* with the i-th key of the catalog's iteration order; none is dropped or
\* repeated, and an empty catalog gives an empty list.
C2_AllThemesResults ==
    \A t \in Threads :
      (Completed(t) /\ Truthy(Get(data[t], "all_themes"))) =>
        LET rs == response[t].results
            catalog == Ascending(DOMAIN theme_store) IN
        /\ Len(rs) = Cardinality(DOMAIN theme_store)
        /\ \A i \in 1..Len(rs) : rs[i].theme = catalog[i]
        /\ \A i, j \in 1..Len(rs) : i # j => rs[i].theme # rs[j].theme

\* C2 witness: an all_themes batch over a catalog of two themes is complete
\* with a failure for the first theme and a success for the second.
C2_Witness ==
    \E t \in Threads :
      /\ Completed(t)
      /\ Truthy(Get(data[t], "all_themes"))
      /\ Cardinality(DOMAIN theme_store) = 2
      /\ Len(response[t].results) = 2
      /\ IsFailure(response[t].results[1])
      /\ IsSuccess(response[t].results[2])

\* C3: a request whose city or country is missing, empty or only whitespace
\* (or that has no body) fails validation: once validation is over the
\* response is the request-level error and no per-theme result exists.
C3_BlankRejected ==
    \A t \in Threads :
      (Validated(t) /\ (Blank(data[t], "city") \/ Blank(data[t], "country"))) =>
        /\ pc[t] = "done"
        /\ response[t] = ErrorResponse("City and Country are required.")
        /\ results[t] = <<>>

\* C4: a batch for a request that supplies neither latitude nor longitude,
\* answered with results for one or more themes, has called
\* cmp.get_coordinates exactly once.
C4_GeocodedOnce ==
    \A t \in Threads :
      ( /\ Completed(t)
        /\ Len(themes_to_run[t]) >= 1
        /\ ~Supplies(data[t], "latitude")
        /\ ~Supplies(data[t], "longitude") ) =>
        geocode_calls[t] = 1

\* C5: for a request that supplies both latitude and longitude as non-blank
\* strings, cmp.get_coordinates is never called in the batch, and every
\* create_poster call gets the point (parsed latitude, parsed longitude).
C5_ExplicitCoordinates ==
    \A t \in Threads :
      ( /\ Validated(t)
        /\ Supplies(data[t], "latitude")
        /\ Supplies(data[t], "longitude") ) =>
        /\ geocode_calls[t] = 0
        /\ render_calls[t] > 0 =>
             last_render[t].point
               = <<ParseCoord(data[t]["latitude"]).val,
                   ParseCoord(data[t]["longitude"]).val>>

\* C5 witness: two themes have been rendered for a request with explicit
\* coordinates, and the geocoder was not called.
C5_Witness ==
    \E t \in Threads :
      /\ Supplies(data[t], "latitude")
      /\ Supplies(data[t], "longitude")
      /\ render_calls[t] = 2
      /\ geocode_calls[t] = 0
      /\ last_render[t].point = <<488566, 23522>>

\* C6: a coordinate-resolution failure (a malformed latitude or longitude,
\* a geocoding miss) is batch-fatal and so is never reported as a per-theme
\* failure entry of a results list.
C6_CoordinateFailureFatal ==
    \A t \in Threads :
      \A i \in 1..Len(results[t]) :
        ~(IsFailure(results[t][i]) /\ results[t][i].error \in CoordinateErrors)

\* C7: fonts are resolved once per batch: load_fonts is called at most once
\* however many themes run, and a font failure is no per-theme entry.
C7_FontsResolvedOnce ==
    \A t \in Threads :
      /\ font_calls[t] <= 1
      /\ \A i \in 1..Len(results[t]) :
           ~(IsFailure(results[t][i]) /\ results[t][i].error \in FontErrors)

\* C8: under concurrent batches the theme in effect during every
\* create_poster call, the value of cmp.THEME at the call, is the theme
\* loaded for the key of the iteration that makes the call.
C8_RenderSeesOwnTheme ==
    \A t \in Threads :
      render_calls[t] > 0 =>
        last_render[t].theme_in_effect = Theme(last_render[t].theme_key)

\* A completed batch holds one entry per selected theme, in order.
C9_CompletedInFull(t) ==
    Completed(t) =>
      /\ theme_idx[t] = Len(themes_to_run[t])
      /\ Len(response[t].results) = Len(themes_to_run[t])
      /\ \A i \in 1..Len(themes_to_run[t]) :
           response[t].results[i].theme = themes_to_run[t][i]

\* C9: once the loop over the selected themes is running, the batch reaches
\* Completed: the results list is returned with one entry per selected
\* theme, in order, each theme taken once; theme failures, even of every
\* theme, neither end the loop early nor turn the batch into a failure.
C9_BatchCompletes ==
    /\ [](\A t \in Threads : C9_CompletedInFull(t))
    /\ \A t \in Threads : (pc[t] \in AttemptPcs) ~> Completed(t)

\* C9 witness: a batch of two themes is complete and both themes failed.
C9_Witness ==
    \E t \in Threads :
      /\ Completed(t)
      /\ Len(themes_to_run[t]) = 2
      /\ \A i \in 1..2 : IsFailure(response[t].results[i])

\* C10: a malformed theme file does not crash catalog load: a valid
\* all_themes request is answered with a results list, over the well-formed
\* themes of the store.
C10_MalformedThemeTolerated ==
    \A t \in Threads :
      (pc[t] = "done" /\ ~Invalid(data[t]) /\ Truthy(Get(data[t], "all_themes"))) =>
        /\ response[t].has_results
        /\ themes_to_run[t]
             = Ascending({k \in DOMAIN theme_store : theme_store[k] = "ok"})

\* The response is the request-level error: status 400, an error message,
\* no results array.
RequestError(t) ==
    /\ response[t].status = 400
    /\ response[t].error # None
    /\ ~response[t].has_results

\* C11: every api_generate call ends in exactly one of two outcomes, a
\* request-level error response without a results array or a response with
\* a results list; never both, never neither.
C11_OneOfTwoOutcomes ==
    \A t \in Threads :
      pc[t] = "done" =>
        /\ RequestError(t) \/ response[t].has_results
        /\ ~(RequestError(t) /\ response[t].has_results)

\* What the step that fails validation leaves behind.
C12_FailedValidationStep(t) ==
    (pc[t] = "validate" /\ Invalid(data[t]) /\ pc'[t] # pc[t]) =>
      /\ pc'[t] = "done"
      /\ RequestError(t)'
      /\ THEME' = THEME
      /\ theme_store' = theme_store

\* A call that failed validation has called no collaborator.
C12_NothingCalled(t) ==
    (pc[t] = "done" /\ RequestError(t)) =>
      /\ calls[t] = <<>>
      /\ <<geocode_calls[t], font_calls[t], render_calls[t]>> = <<0, 0, 0>>
      /\ last_render[t] = NoRender
      /\ <<themes_to_run[t], results[t], params[t]>> = <<<<>>, <<>>, Unset>>
      /\ <<coords[t], custom_fonts[t], output_file[t]>> = <<Unset, Unset, Unset>>

\* C12: validation happens before any processing: when it fails, no
\* collaborator has been called for the call (no catalog load, coordinate
\* parse, geocoding, font load, theme load, output naming or render) and
\* cmp.THEME is as it was.
C12_ValidationFirst ==
    /\ [](\A t \in Threads : C12_NothingCalled(t))
    /\ [][\A t \in Threads : C12_FailedValidationStep(t)]_vars

\* C12 witness: a request without a country has been refused while cmp.THEME
\* still holds the theme an earlier call loaded.
C12_Witness ==
    \E t \in Threads :
      /\ pc[t] = "done"
      /\ RequestError(t)
      /\ "city" \in DOMAIN data[t]
      /\ "country" \notin DOMAIN data[t]
      /\ THEME = Theme("tokyo")

\* Thread t took a step in which cmp.load_theme raised.
ThemeLookupFailed(t) ==
    /\ pc[t] = "theme"
    /\ calls'[t] = Append(calls[t], "load_theme")
    /\ pc'[t] # "name"

\* C13: a theme lookup that fails is a theme-scoped failure: the step
\* appends the failure entry {theme, error} for that key to the results and
\* nothing else, the batch goes on to the next theme or, after the last one,
\* answers with the results list, and no request-level error (nor any other
\* response without results) is produced.
C13_ThemeLookupFailure ==
    [][\A t \in Threads :
         ThemeLookupFailed(t) =>
           /\ results'[t] = Append(results[t],
                                   [theme |-> themes_to_run[t][theme_idx[t]],
                                    error |-> "could not load theme"])
           /\ params[t]["theme"] = themes_to_run[t][theme_idx[t]]
           /\ themes_to_run'[t] = themes_to_run[t]
           /\ IF theme_idx[t] < Len(themes_to_run[t])
              THEN /\ pc'[t] = "coords"
                   /\ theme_idx'[t] = theme_idx[t] + 1
                   /\ response'[t] = NoResponse
              ELSE /\ pc'[t] = "done"
                   /\ response'[t] = ResultsResponse(results'[t])]_vars

\* C13 witness: a batch of two themes has completed; the lookup of the first
\* theme failed and the second theme was rendered.
C13_Witness ==
    \E t \in Threads :
      /\ Completed(t)
      /\ Len(response[t].results) = 2
      /\ response[t].results[1]
           = [theme |-> "terracotta", error |-> "could not load theme"]
      /\ IsSuccess(response[t].results[2])
      /\ response[t].results[2].theme = "tokyo"

\* The request of thread t asks for one theme and names it.
SingleThemeGiven(t) ==
    /\ ~Invalid(data[t])
    /\ ~Truthy(Get(data[t], "all_themes"))
    /\ "theme" \in DOMAIN data[t]

\* C14: a valid request with all_themes false and a theme key given is
\* answered with a results list of exactly one entry, tagged with the
\* requested key, be it a success or a failure entry.
C14_SingleThemeOneEntry ==
    \A t \in Threads :
      (pc[t] = "done" /\ SingleThemeGiven(t)) =>
        /\ Completed(t)
        /\ Len(response[t].results) = 1
        /\ response[t].results[1].theme = data[t]["theme"]
        /\ IsSuccess(response[t].results[1]) # IsFailure(response[t].results[1])

\* C14 witness: a request for the theme tokyo alone has been answered with
\* one failure entry.
C14_Witness ==
    \E t \in Threads :
      /\ pc[t] = "done"
      /\ SingleThemeGiven(t)
      /\ data[t]["theme"] = "tokyo"
      /\ Len(response[t].results) = 1
      /\ IsFailure(response[t].results[1])

\* The request of thread t asks for every theme, and the catalog was loaded.
AllThemesBatch(t) ==
    /\ Validated(t)
    /\ pc[t] # "select"
    /\ Truthy(Get(data[t], "all_themes"))
    /\ response[t] # CrashResponse

\* What an all_themes batch shows at any moment is fixed by the theme store
\* and by how far the batch is; the request's theme field is no part of it.
C15_FromCatalogOnly(t) ==
    AllThemesBatch(t) =>
      /\ themes_to_run[t] = Ascending(DOMAIN theme_store)
      /\ pc[t] \in AttemptPcs =>
            params[t]["theme"] = themes_to_run[t][theme_idx[t]]
      /\ \A i \in 1..Len(results[t]) :
            results[t][i].theme = themes_to_run[t][i]
      /\ Completed(t) => Len(response[t].results) = Len(themes_to_run[t])

\* The theme an all_themes batch loads, names and renders is the catalog's
\* theme at the batch's position.
C15_LoadsCatalogTheme(t) ==
    LET key == themes_to_run[t][theme_idx[t]] IN
    (AllThemesBatch(t) /\ pc[t] \in AttemptPcs) =>
      /\ (pc[t] = "theme" /\ pc'[t] = "name") => THEME' = Theme(key)
      /\ (pc[t] = "name" /\ pc'[t] = "render") => output_file'[t][3] = key
      /\ (pc[t] = "render" /\ pc'[t] # pc[t]) =>
            /\ last_render'[t].theme_key = key
            /\ last_render'[t].theme_in_effect = Theme(key)

\* C15: when all_themes is true the request's theme field is ignored: the
\* themes attempted and their order, the theme loaded for each render and
\* the theme key of every result entry are those of the catalog, whatever
\* the theme field holds, and so are the same for two requests that differ
\* in that field only.
C15_ThemeFieldIgnored ==
    /\ [](\A t \in Threads : C15_FromCatalogOnly(t))
    /\ [][\A t \in Threads : C15_LoadsCatalogTheme(t)]_vars

\* C15 witness: an all_themes request that names the theme tokyo has had
\* terracotta rendered and recorded, tokyo being the second theme of two.
C15_Witness ==
    \E t \in Threads :
      /\ AllThemesBatch(t)
      /\ Get(data[t], "theme") = "tokyo"
      /\ themes_to_run[t] = <<"terracotta", "tokyo">>
      /\ Len(results[t]) = 1
      /\ IsSuccess(results[t][1])
      /\ last_render[t].theme_key = "terracotta"

\* The entries of a results list: each has the key of the theme attempted
\* at its position and either a file or an error.
C16_WellFormed(rs, themes) ==
    \A i \in 1..Len(rs) :
      /\ rs[i].theme = themes[i]
      /\ DOMAIN rs[i] \in {{"theme", "file"}, {"theme", "error"}}
      /\ IsSuccess(rs[i]) # IsFailure(rs[i])

\* A step that appends a success entry is the return of create_poster for
\* that theme, and the entry names the file that call wrote.
C16_SuccessAfterRender(t) ==
    (Len(results'[t]) = Len(results[t]) + 1
       /\ IsSuccess(results'[t][Len(results'[t])])) =>
      LET entry == results'[t][Len(results'[t])] IN
      /\ pc[t] = "render"
      /\ calls'[t] = Append(calls[t], "create_poster")
      /\ last_render'[t].returned
      /\ last_render'[t].theme_key = entry.theme
      /\ entry.file = Basename(last_render'[t].output_file)

\* C16: every entry of the results list carries the key of the theme that
\* was attempted and exactly one of file and error, and a success entry is
\* appended only by the step in which the render call for that theme
\* returned without raising.
C16_EntryShape ==
    /\ [](\A t \in Threads :
            /\ Len(results[t]) <= Len(themes_to_run[t])
            /\ C16_WellFormed(results[t], themes_to_run[t])
            /\ Completed(t) => response[t].results = results[t])
    /\ [][\A t \in Threads : C16_SuccessAfterRender(t)]_vars

\* C16 witness: a batch of two themes has completed with a success entry for
\* the first theme and a failure entry for the second.
C16_Witness ==
    \E t \in Threads :
      /\ Completed(t)
      /\ Len(response[t].results) = 2
      /\ IsSuccess(response[t].results[1])
      /\ IsFailure(response[t].results[2])
      /\ last_render[t].theme_key = "tokyo"
      /\ ~last_render[t].returned

\* How many times the collaborator `name` occurs in the call trace cs.
RECURSIVE CountCalls(_, _)
CountCalls(cs, name) ==
    IF cs = <<>> THEN 0
    ELSE (IF Head(cs) = name THEN 1 ELSE 0) + CountCalls(Tail(cs), name)

\* While thread t is inside an attempt it is the attempt of the theme right
\* after the themes whose results are in the list, and no later theme has
\* been loaded or rendered.
C17_OneAttempt(t) ==
    /\ pc[t] \in AttemptPcs =>
          /\ theme_idx[t] = Len(results[t]) + 1
          /\ theme_idx[t] <= Len(themes_to_run[t])
    /\ CountCalls(calls[t], "load_theme")
          <= Len(results[t]) + (IF pc[t] \in {"name", "render"} THEN 1 ELSE 0)
    /\ CountCalls(calls[t], "create_poster") <= Len(results[t])

\* An attempt begins at the first theme with no result yet, or right after
\* the step that appended the result of the theme before it.
C17_NextAfterAppend(t) ==
    (pc'[t] = "coords" /\ theme_idx'[t] # theme_idx[t]) =>
      /\ theme_idx'[t] = theme_idx[t] + 1
      /\ Len(results'[t]) = theme_idx[t]
      /\ theme_idx[t] > 0 =>
            /\ pc[t] \in AttemptPcs
            /\ Len(results[t]) = theme_idx[t] - 1
            /\ results'[t][theme_idx[t]].theme = themes_to_run[t][theme_idx[t]]

\* C17: the themes of a batch are processed strictly one after another: at
\* most one attempt of the batch is in progress, and the attempt of the
\* (i+1)-th theme begins only once the result of the i-th theme is in the
\* results list.
C17_Sequential ==
    /\ [](\A t \in Threads : C17_OneAttempt(t))
    /\ [][\A t \in Threads : C17_NextAfterAppend(t)]_vars

\* C17 witness: the second theme of a batch is being loaded after the first
\* theme was rendered and its result appended.
C17_Witness ==
    \E t \in Threads :
      /\ pc[t] = "theme"
      /\ theme_idx[t] = 2
      /\ Len(results[t]) = 1
      /\ IsSuccess(results[t][1])
      /\ CountCalls(calls[t], "create_poster") = 1

\* No api_generate call is running: none has started, or every one has
\* returned.
NoCallRunning == \A t \in Threads : pc[t] \in {"idle", "done"}

\* C18: no request state persists beyond the call: once a call has returned
\* the process-wide state a later call sees, cmp.THEME in particular, is as
\* it was before the call; with calls served one at a time it is therefore,
\* between calls, what it was before the first call.
C18_NoStatePersists ==
    NoCallRunning => THEME = Unset

\* The request names a font family: the field is there and is not empty.
\* A family of whitespace is a name like any other.
NamesFontFamily(d) == Truthy(Get(d, "font_family"))

\* C19: font resolution policy: with font_family absent or empty
\* load_fonts is never called and every render call receives fonts=None;
\* with a font_family named, load_fonts has been called for that family by
\* the time the theme is loaded and every render call receives what it
\* returned.
C19_FontPolicy ==
    \A t \in Threads :
      Validated(t) =>
        IF NamesFontFamily(data[t])
        THEN /\ pc[t] \in {"theme", "name", "render"} =>
                   /\ font_calls[t] >= 1
                   /\ custom_fonts[t] = FontSet(data[t]["font_family"])
             /\ render_calls[t] > 0 =>
                   last_render[t].fonts = FontSet(data[t]["font_family"])
        ELSE /\ font_calls[t] = 0
             /\ CountCalls(calls[t], "load_fonts") = 0
             /\ custom_fonts[t] = Unset
             /\ render_calls[t] > 0 => last_render[t].fonts = Unset

\* C19 witness: a batch of two themes for the family Roboto has rendered
\* its second theme with the fonts load_fonts returned for it.
C19_Witness ==
    \E t \in Threads :
      /\ Completed(t)
      /\ Get(data[t], "font_family") = "Roboto"
      /\ font_calls[t] = 2
      /\ last_render[t].theme_key = "tokyo"
      /\ last_render[t].fonts = FontSet("Roboto")
      /\ last_render[t].returned

\* Thread t has just loaded the catalog from the directory listing listed[t].
CatalogLoaded(t) ==
    /\ AllThemesBatch(t)
    /\ pc[t] = "coords"
    /\ theme_idx[t] = 1
    /\ results[t] = <<>>

\* C20: the catalog order is deterministic: for a given set of theme files
\* load_all_themes returns the keys in one order, the ascending order of the
\* file paths, in whatever order the directory listed the files, and an
\* all_themes batch runs the themes in that order.
C20_CatalogOrder ==
    \A t \in Threads :
      /\ AllThemesBatch(t) =>
            /\ themes_to_run[t] = Ascending(DOMAIN theme_store)
            /\ \A i, j \in 1..Len(themes_to_run[t]) :
                  i < j => Rank(themes_to_run[t][i]) < Rank(themes_to_run[t][j])
            /\ \A i \in 1..Len(results[t]) :
                  results[t][i].theme = Ascending(DOMAIN theme_store)[i]
      /\ CatalogLoaded(t) =>
            /\ listed[t] \in Glob(theme_store)
            /\ themes_to_run[t] = Sorted(listed[t])
            /\ \A other \in Glob(theme_store) :
                  Sorted(other) = themes_to_run[t]

\* C20 witness: the directory listed tokyo before terracotta and the batch
\* starts with terracotta, tokyo to follow.
C20_Witness ==
    \E t \in Threads :
      /\ CatalogLoaded(t)
      /\ listed[t] = <<"tokyo", "terracotta">>
      /\ themes_to_run[t] = <<"terracotta", "tokyo">>
      /\ params[t]["theme"] = "terracotta"

\* The format a request asks for.
RequestedFormat(d) == GetOr(d, "format", "png")

OneCoordinateOnly(d) ==
    Truthy(Get(d, "latitude")) # Truthy(Get(d, "longitude"))

\* The attempt of thread t is past coordinate resolution.
CoordsResolved(t) == pc[t] \in {"fonts", "theme", "name", "render"}

\* C22: with only one of latitude and longitude given (the other absent or
\* empty) nothing is parsed and every attempt asks the geocoder for
\* (city, country) and goes on with what it returned; coordinates are parsed
\* only for a request that gives both.
C22_PartialCoordinates ==
    \A t \in Threads :
      /\ (Validated(t) /\ OneCoordinateOnly(data[t])) =>
            /\ CountCalls(calls[t], "parse_coord") = 0
            /\ pc[t] \in AttemptPcs =>
                  geocode_calls[t] = theme_idx[t] - (IF pc[t] = "coords" THEN 1 ELSE 0)
            /\ CoordsResolved(t) =>
                  coords[t] = GeocodeResult(data[t]["city"], data[t]["country"])
            /\ render_calls[t] > 0 =>
                  last_render[t].point
                    = GeocodeResult(data[t]["city"], data[t]["country"])
      /\ CountCalls(calls[t], "parse_coord") > 0 =>
            /\ Truthy(Get(data[t], "latitude"))
            /\ Truthy(Get(data[t], "longitude"))

\* C22 witness: a request with a latitude and no longitude has had its
\* poster rendered at the place the geocoder returned.
C22_Witness ==
    \E t \in Threads :
      /\ Completed(t)
      /\ Get(data[t], "latitude") = "48.8566"
      /\ "longitude" \notin DOMAIN data[t]
      /\ calls[t][1] = "get_coordinates"
      /\ last_render[t].returned
      /\ last_render[t].point = GeocodeResult("Paris", "France")

\* The steps of do_generate in the order of its lines.
StepOrder == <<"coords", "fonts", "theme", "name", "render">>
StepAfter(label) ==
    StepOrder[(CHOOSE i \in 1..Len(StepOrder) : StepOrder[i] = label) + 1]

\* The collaborators an attempt with parameters p has called when it comes
\* to the render, every call having returned.
CallsBeforeRender(p) ==
    (IF UsesExplicitCoords(p) THEN <<"parse_coord", "parse_coord">>
                              ELSE <<"get_coordinates">>)
    \o (IF Truthy(Get(p, "font_family")) THEN <<"load_fonts">> ELSE <<>>)
    \o <<"load_theme", "generate_output_filename">>

EndsWith(s, tail) ==
    /\ Len(tail) <= Len(s)
    /\ SubSeq(s, Len(s) - Len(tail) + 1, Len(s)) = tail

\* The entries of rs whose theme had create_poster invoked.
Rendered(rs) ==
    {i \in 1..Len(rs) :
       IsSuccess(rs[i]) \/ (IsFailure(rs[i]) /\ rs[i].error = "could not render")}

\* What each position of an attempt has behind it, and which themes had
\* create_poster invoked.
C23_Gated(t) ==
    /\ pc[t] \in {"fonts", "theme", "name", "render"} => coords[t] # Unset
    /\ pc[t] \in {"theme", "name", "render"} =>
          custom_fonts[t] = (IF Truthy(Get(params[t], "font_family"))
                             THEN FontSet(params[t]["font_family"]) ELSE Unset)
    /\ pc[t] \in {"name", "render"} => THEME = Theme(params[t]["theme"])
    /\ pc[t] = "render" =>
          /\ output_file[t] # Unset
          /\ EndsWith(calls[t], CallsBeforeRender(params[t]))
    /\ CountCalls(calls[t], "create_poster") = Cardinality(Rendered(results[t]))
    /\ \A i \in 1..Len(results[t]) :
          IsFailure(results[t][i]) => "file" \notin DOMAIN results[t][i]

\* A step of an attempt goes to the next line of do_generate, or ends the
\* attempt with an entry; create_poster is invoked from the render position
\* only, and an attempt ended before it reports a failure.
C23_InOrder(t) ==
    /\ (pc[t] \in AttemptPcs /\ pc'[t] # pc[t] /\ results'[t] = results[t]) =>
          pc'[t] = StepAfter(pc[t])
    /\ (pc[t] \in AttemptPcs /\ results'[t] # results[t] /\ pc[t] # "render") =>
          /\ IsFailure(results'[t][Len(results'[t])])
          /\ CountCalls(calls'[t], "create_poster")
               = CountCalls(calls[t], "create_poster")
          /\ render_calls'[t] = render_calls[t]
    /\ CountCalls(calls'[t], "create_poster")
         > CountCalls(calls[t], "create_poster") =>
          /\ pc[t] = "render"
          /\ calls'[t] = Append(calls[t], "create_poster")

\* C23: within a theme attempt the steps run in a fixed order and the
\* render is gated on them: create_poster is invoked only once coordinate
\* resolution, font resolution, theme load and output naming have returned
\* in that attempt, and when one of them raises create_poster is not invoked
\* for the theme and its entry reports no file.
C23_RenderGated ==
    /\ [](\A t \in Threads : C23_Gated(t))
    /\ [][\A t \in Threads : C23_InOrder(t)]_vars

\* C23 witness: in a batch of two themes naming the first theme's output
\* failed, so only the second theme was rendered.
C23_Witness ==
    \E t \in Threads :
      /\ Completed(t)
      /\ Len(results[t]) = 2
      /\ results[t][1] = [theme |-> "terracotta", error |-> "could not name output"]
      /\ IsSuccess(results[t][2])
      /\ CountCalls(calls[t], "create_poster") = 1
      /\ render_calls[t] = 1

\* Thread t invokes create_poster in this step.
InvokesRender(t) ==
    /\ pc[t] = "render"
    /\ calls'[t] = Append(calls[t], "create_poster")

\* C24: in a batch that runs with no other batch interleaved, when
\* create_poster is invoked for the key k cmp.THEME is the theme loaded for
\* k in that same iteration, load_theme having been called and returned two
\* calls earlier; so the render that follows a theme whose load failed runs
\* with its own theme, not with the one left in cmp.THEME.
C24_SerialRenderTheme ==
    [][\A t \in Threads :
         InvokesRender(t) =>
           LET k == themes_to_run[t][theme_idx[t]] IN
           /\ THEME = Theme(k)
           /\ EndsWith(calls[t], <<"load_theme", "generate_output_filename">>)
           /\ last_render'[t].theme_key = k
           /\ last_render'[t].theme_in_effect = Theme(k)
           /\ THEME' = THEME]_vars

\* C24 witness: the load of terracotta failed in a batch's first attempt
\* and tokyo has then been rendered with tokyo's theme in cmp.THEME.
C24_Witness ==
    \E t \in Threads :
      /\ Completed(t)
      /\ Len(results[t]) = 2
      /\ results[t][1] = [theme |-> "terracotta", error |-> "could not load theme"]
      /\ IsSuccess(results[t][2])
      /\ last_render[t].theme_key = "tokyo"
      /\ last_render[t].theme_in_effect = Theme("tokyo")
      /\ THEME = Theme("tokyo")

\* The batch of thread t is in its loop or has completed it.
InLoop(t) == pc[t] \in AttemptPcs \/ Completed(t)

\* The theme list of a running batch stays what it was, whatever the step.
C25_ListKept(t) ==
    (InLoop(t) /\ pc'[t] # "idle") =>
      /\ themes_to_run'[t] = themes_to_run[t]
      /\ CountCalls(calls'[t], "load_all_themes")
           = CountCalls(calls[t], "load_all_themes")

\* The loop follows the list made at the start, and the catalog was read
\* once for it.
C25_FollowsList(t) ==
    /\ InLoop(t) =>
          CountCalls(calls[t], "load_all_themes")
            = (IF Truthy(Get(data[t], "all_themes")) THEN 1 ELSE 0)
    /\ pc[t] \in AttemptPcs =>
          /\ theme_idx[t] <= Len(themes_to_run[t])
          /\ params[t]["theme"] = themes_to_run[t][theme_idx[t]]
    /\ Len(results[t]) <= Len(themes_to_run[t])
    /\ \A i \in 1..Len(results[t]) : results[t][i].theme = themes_to_run[t][i]
    /\ Completed(t) => Len(response[t].results) = Len(themes_to_run[t])

\* C25: the theme set of a batch is fixed once, before the first attempt:
\* an all_themes batch enumerates the catalog exactly once, the list is not
\* re-read or changed while the loop runs, and a theme file added or removed
\* during the batch changes neither the number nor the order of the result
\* entries.
C25_ThemeSetFixed ==
    /\ [](\A t \in Threads : C25_FollowsList(t))
    /\ [][\A t \in Threads : C25_ListKept(t)]_vars

\* C25 witness: an all_themes batch has completed with entries for
\* terracotta and tokyo although tokyo's file is gone by now.
C25_Witness ==
    \E t \in Threads :
      /\ Completed(t)
      /\ themes_to_run[t] = <<"terracotta", "tokyo">>
      /\ DOMAIN theme_store = {"terracotta"}
      /\ Len(response[t].results) = 2
      /\ response[t].results[2].theme = "tokyo"

\* The parameters of the attempt of thread t are the request with the theme
\* field replaced by the loop's key.
C26_FreshCopy(t) ==
    pc[t] \in AttemptPcs =>
      /\ DOMAIN params[t] = DOMAIN data[t] \cup {"theme"}
      /\ \A k \in DOMAIN data[t] \ {"theme"} : params[t][k] = data[t][k]
      /\ params[t]["theme"] = themes_to_run[t][theme_idx[t]]

\* Every render of the batch of thread t was given what the request says.
C26_SameInputs(t) ==
    render_calls[t] > 0 =>
      LET d == data[t]
          r == last_render[t] IN
      /\ r.city = d["city"]
      /\ r.country = d["country"]
      /\ r.point = (IF UsesExplicitCoords(d) THEN ExplicitCoords(d)
                    ELSE GeocodeResult(d["city"], d["country"]))
      /\ r.dist = IntOr(d, "distance", DefaultDistance).val
      /\ r.width = FloatOr(d, "width", DefaultWidth).val
      /\ r.height = FloatOr(d, "height", DefaultHeight).val
      /\ r.output_format = RequestedFormat(d)
      /\ r.country_label = OrNone(d, "country_label")
      /\ r.display_city = OrNone(d, "display_city")
      /\ r.display_country = OrNone(d, "display_country")
      /\ r.fonts = (IF NamesFontFamily(d) THEN FontSet(d["font_family"])
                    ELSE Unset)

\* C26: processing does not modify the request: the request stays as it was
\* received while the call runs, each attempt's parameters are the request
\* with only the theme field replaced, and so every theme of a batch is
\* rendered with the same city, country, coordinates, distance, dimensions,
\* format, labels and fonts.
C26_RequestNotModified ==
    /\ [](\A t \in Threads : C26_FreshCopy(t) /\ C26_SameInputs(t))
    /\ [][\A t \in Threads :
            (pc[t] \notin {"idle", "done"}) => data'[t] = data[t]]_vars

\* C26 witness: an all_themes batch with a distance, a format and labels of
\* its own has rendered its second theme with them.
C26_Witness ==
    \E t \in Threads :
      /\ Completed(t)
      /\ Truthy(Get(data[t], "all_themes"))
      /\ Get(data[t], "theme") = "tokyo"
      /\ Len(results[t]) = 2
      /\ \A i \in 1..2 : IsSuccess(results[t][i])
      /\ last_render[t].theme_key = "tokyo"
      /\ last_render[t].dist = 5000
      /\ last_render[t].output_format = "svg"
      /\ last_render[t].display_city = "Lutetia"
      /\ last_render[t].width = 8

\* The field k of d is missing or empty.
Empty(d, k) == Get(d, k) \in {None, ""}

\* C27: defaults: a render for a request without distance, width, height
\* or format receives 18000, 12, 16 and "png"; a request with all_themes
\* false and no theme field runs exactly the theme terracotta; and a
\* display_city, display_country or country_label that is missing or empty
\* reaches the render as None.
C27_Defaults ==
    \A t \in Threads :
      LET d == data[t]
          r == last_render[t] IN
      /\ render_calls[t] > 0 =>
            /\ "distance" \notin DOMAIN d => r.dist = 18000
            /\ "width" \notin DOMAIN d => r.width = 12
            /\ "height" \notin DOMAIN d => r.height = 16
            /\ "format" \notin DOMAIN d => r.output_format = "png"
            /\ Empty(d, "display_city") => r.display_city = None
            /\ Empty(d, "display_country") => r.display_country = None
            /\ Empty(d, "country_label") => r.country_label = None
      /\ (InLoop(t) /\ ~Truthy(Get(d, "all_themes")) /\ "theme" \notin DOMAIN d) =>
            /\ themes_to_run[t] = <<"terracotta">>
            /\ \A i \in 1..Len(results[t]) : results[t][i].theme = "terracotta"
            /\ Completed(t) => Len(response[t].results) = 1

\* C27 witness: a request that gives nothing but the place has had its
\* poster rendered: terracotta, 18000 m, 12 by 16, png, no labels.
C27_Witness ==
    \E t \in Threads :
      /\ Completed(t)
      /\ DOMAIN data[t] = {"city", "country", "latitude", "longitude"}
      /\ Len(response[t].results) = 1
      /\ IsSuccess(response[t].results[1])
      /\ last_render[t].theme_key = "terracotta"
      /\ <<last_render[t].dist, last_render[t].width, last_render[t].height>>
           = <<18000, 12, 16>>
      /\ last_render[t].output_format = "png"
      /\ last_render[t].display_city = None
====
